---------------------------- MODULE Spec2Model ----------------------------
(***************************************************************************)
(* Model of src/rock_bottom.rs: the Tank record and its derived            *)
(* quantities, divide_gas_among and Diver::rock_bottom_pressure_rec.       *)
(*                                                                         *)
(* f64 values are modelled as exact extended rationals [n, d]:             *)
(*   d > 0, gcd(|n|, d) = 1   the finite value n / d                       *)
(*   d = 0, n = 1 / n = -1    +infinity / -infinity                        *)
(*   d = 0, n = 0             NaN                                          *)
(* with the IEEE-754 rules for division by zero, infinity and NaN.         *)
(* Rounding error and the sign of zero are not modelled, so "equal" below  *)
(* is the exact counterpart of "equal within floating-point tolerance".    *)
(***************************************************************************)
EXTENDS Integers, Sequences, FiniteSets

VARIABLES
    kit,            \* self.kit.tanks of the diver
    depth_m,        \* argument of rock_bottom_pressure_rec
    rmv,            \* self.rmv
    conv,           \* which numeric conversions fail (see ConvOutcomes)
    pc,             \* position inside rock_bottom_pressure_rec
    bottom_tanks,   \* local of line 81, then Option<Vec<Tank>> of line 92
    stop_tanks,     \* local of line 86
    all_tanks,      \* local of line 94
    status,         \* how the call ended
    result,         \* the Vec<Tank> of an Ok return
    u_op,           \* unit calls: the Tank method called last
    u_self,         \* unit calls: the receiver of the call
    u_arg,          \* unit calls: its f64 argument
    u_ret,          \* unit calls: the Option<Tank> returned
    u_bool,         \* unit calls: the bool returned by breathable_at
    u_n             \* unit calls: number of calls made

vars == <<kit, depth_m, rmv, conv, pc, bottom_tanks, stop_tanks, all_tanks,
          status, result, u_op, u_self, u_arg, u_ret, u_bool, u_n>>

rbVars == <<kit, depth_m, rmv, pc, bottom_tanks, stop_tanks, all_tanks,
            status, result>>
unitVars == <<u_op, u_self, u_arg, u_ret, u_bool, u_n>>

---------------------------------------------------------------------------
(* Bounds of the model *)

MaxTanks == 2
MaxCalls == 2

---------------------------------------------------------------------------
(* f64 arithmetic *)

Abs(x) == IF x < 0 THEN -x ELSE x

Sgn(x) == IF x < 0 THEN -1 ELSE IF x > 0 THEN 1 ELSE 0

RECURSIVE GCD(_, _)
GCD(a, b) == IF b = 0 THEN a ELSE GCD(b, a % b)

\* The f64 with value n / d (d may be 0: infinities and NaN).
F(n, d) ==
    IF d = 0 THEN [n |-> Sgn(n), d |-> 0]
    ELSE LET g == GCD(Abs(n), Abs(d))
             s == Sgn(d)
         IN  [n |-> (s * n) \div g, d |-> (s * d) \div g]

NaN == [n |-> 0, d |-> 0]
Zero == [n |-> 0, d |-> 1]

IsNaN(a) == a.d = 0 /\ a.n = 0
IsFinite(a) == a.d > 0

FNeg(a) == [n |-> -a.n, d |-> a.d]

FMul(a, b) ==
    IF a.d = 0 \/ b.d = 0 THEN F(a.n * b.n, 0)
    ELSE LET g1 == GCD(Abs(a.n), b.d)
             g2 == GCD(Abs(b.n), a.d)
         IN  F((a.n \div g1) * (b.n \div g2), (a.d \div g2) * (b.d \div g1))

\* 1.0 / b
FRecip(b) ==
    IF b.d = 0 THEN (IF b.n = 0 THEN NaN ELSE Zero)
    ELSE IF b.n = 0 THEN [n |-> 1, d |-> 0]
    ELSE [n |-> Sgn(b.n) * b.d, d |-> Abs(b.n)]

FDiv(a, b) == FMul(a, FRecip(b))

FAdd(a, b) ==
    IF IsNaN(a) \/ IsNaN(b) THEN NaN
    ELSE IF a.d = 0 THEN (IF b.d = 0 /\ b.n # a.n THEN NaN ELSE a)
    ELSE IF b.d = 0 THEN b
    ELSE LET g == GCD(a.d, b.d)
         IN  F(a.n * (b.d \div g) + b.n * (a.d \div g), (a.d \div g) * b.d)

FSub(a, b) == FAdd(a, FNeg(b))

\* a <= b; false when either side is NaN
FLe(a, b) ==
    IF IsNaN(a) \/ IsNaN(b) THEN FALSE
    ELSE IF a.d = 0 THEN (a.n = -1 \/ (b.d = 0 /\ b.n = 1))
    ELSE IF b.d = 0 THEN b.n = 1
    ELSE a.n * b.d <= b.n * a.d

\* a == b; false when either side is NaN
FEq(a, b) == ~IsNaN(a) /\ ~IsNaN(b) /\ a = b

RECURSIVE FSum(_)
FSum(s) == IF s = <<>> THEN Zero ELSE FAdd(Head(s), FSum(Tail(s)))

---------------------------------------------------------------------------
(* Option and Result values *)

None == <<>>
Some(x) == <<x>>
IsSome(o) == Len(o) = 1
Unwrap(o) == o[1]

---------------------------------------------------------------------------
(* Program constants *)

SAFETY_STOP_DEPTH == F(9, 2)
ASCENT_RATE == F(457, 50)
SAFETY_STOP_MINUTES == F(3, 1)
MAX_PO2 == F(7, 5)

---------------------------------------------------------------------------
(* Numeric conversions.  Both conversions of the source return a Result;   *)
(* conv says for which values they return Err: f64::try_from on a          *)
(* service_pressure in conv.bad_sp, f64::value_from on a length above      *)
(* conv.max_len.                                                           *)

try_from_u16(sp) ==
    IF sp \in conv.bad_sp THEN None ELSE Some(F(sp, 1))

value_from_usize(len) ==
    IF len > conv.max_len THEN None ELSE Some(F(len, 1))

---------------------------------------------------------------------------
(* Tank *)

atmospheres(d) == FAdd(F(1, 1), FDiv(d, F(10, 1)))

tank_factor(t) ==
    LET sp == try_from_u16(t.service_pressure)
    IN  IF IsSome(sp) THEN Some(FDiv(t.capacity_cuft, Unwrap(sp))) ELSE None

gas_volume_cuft(t) ==
    LET tf == tank_factor(t)
    IN  IF IsSome(tf) THEN Some(FMul(t.gauge_pressure, Unwrap(tf))) ELSE None

pO2(t, d) == FMul(atmospheres(d), t.f_o2)

\* breathable_at with the limit excluded (< for <=)
breathable_at_strict(t, d) == ~FLe(MAX_PO2, pO2(t, d))

breathable_at(t, d) == FLe(pO2(t, d), MAX_PO2)

\* with_volume multiplying by the tank factor instead of dividing
with_volume_times(t, volume) ==
    LET tf == tank_factor(t)
    IN  IF IsSome(tf)
        THEN Some([service_pressure |-> t.service_pressure,
                   capacity_cuft |-> t.capacity_cuft,
                   f_o2 |-> t.f_o2,
                   f_n2 |-> t.f_n2,
                   gauge_pressure |-> FMul(volume, Unwrap(tf))])
        ELSE None

\* with_volume copying f_o2 into f_n2
with_volume_swapped(t, volume) ==
    LET tf == tank_factor(t)
    IN  IF IsSome(tf)
        THEN Some([service_pressure |-> t.service_pressure,
                   capacity_cuft |-> t.capacity_cuft,
                   f_o2 |-> t.f_o2,
                   f_n2 |-> t.f_o2,
                   gauge_pressure |-> FDiv(volume, Unwrap(tf))])
        ELSE None

with_volume(t, volume) ==
    LET tf == tank_factor(t)
    IN  IF IsSome(tf)
        THEN Some([service_pressure |-> t.service_pressure,
                   capacity_cuft |-> t.capacity_cuft,
                   f_o2 |-> t.f_o2,
                   f_n2 |-> t.f_n2,
                   gauge_pressure |-> FDiv(volume, Unwrap(tf))])
        ELSE None

\* add_volume forgetting the gas already in the tank
add_volume_replace(t, volume) ==
    LET gv == gas_volume_cuft(t)
    IN  IF IsSome(gv) THEN with_volume(t, volume) ELSE None

add_volume(t, volume) ==
    LET gv == gas_volume_cuft(t)
    IN  IF IsSome(gv) THEN with_volume(t, FAdd(Unwrap(gv), volume)) ELSE None

---------------------------------------------------------------------------
(* divide_gas_among *)

\* both allocations made with add_volume
volume_allocator_additive(kind, t, volume) == add_volume(t, volume)

\* The closure passed as volume_allocator: Tank::with_volume (line 92) or
\* Tank::add_volume (line 101).
volume_allocator(kind, t, volume) ==
    IF kind = "with_volume" THEN with_volume(t, volume) ELSE add_volume(t, volume)

\* Iterator::collect::<Option<Vec<_>>>: None as soon as one item is None.
collect_option(opts) ==
    IF \E i \in 1..Len(opts) : ~IsSome(opts[i]) THEN None
    ELSE Some([i \in 1..Len(opts) |-> Unwrap(opts[i])])

\* the whole need given to every tank
gas_per_tank_whole(needed_gas, tank_count) == needed_gas

gas_per_tank(needed_gas, tank_count) == FDiv(needed_gas, tank_count)

\* Result<Option<Vec<Tank>>, PosOverflow>: ok = FALSE is Err(PosOverflow).
divide_gas_among(tanks, needed_gas, kind) ==
    LET tank_count == value_from_usize(Len(tanks))
    IN  IF ~IsSome(tank_count) THEN [ok |-> FALSE, opt |-> None]
        ELSE LET gas_per_ascent_tank == gas_per_tank(needed_gas, Unwrap(tank_count))
             IN  [ok |-> TRUE,
                  opt |-> collect_option(
                      [i \in 1..Len(tanks) |->
                          volume_allocator(kind, tanks[i], gas_per_ascent_tank)])]

---------------------------------------------------------------------------
(* The gas budget of rock_bottom_pressure_rec *)

Two == F(2, 1)
Four == F(4, 1)

ascent_ata(d) == atmospheres(FDiv(FSub(d, SAFETY_STOP_DEPTH), Two))
bottom_ata(d) == atmospheres(d)
ascent_minutes(d) == FDiv(d, ASCENT_RATE)
problem_gas(r, d) == FMul(FMul(FMul(r, Two), bottom_ata(d)), Four)
ascent_gas(r, d) == FMul(FMul(FMul(ascent_ata(d), ascent_minutes(d)), r), Two)
stop_gas(r) ==
    FMul(FMul(FMul(atmospheres(SAFETY_STOP_DEPTH), SAFETY_STOP_MINUTES), r), Two)

\* the filter closures of lines 84 and 89-91
IsBottomTank(t, d) == breathable_at(t, d)

\* the stop filter without the exclusion of the bottom tanks
IsStopTank_any(t, d) == breathable_at(t, SAFETY_STOP_DEPTH)

IsStopTank(t, d) == breathable_at(t, SAFETY_STOP_DEPTH) /\ ~breathable_at(t, d)

bottom_filter(tanks, d) == SelectSeq(tanks, LAMBDA t : IsBottomTank(t, d))
stop_filter(tanks, d) == SelectSeq(tanks, LAMBDA t : IsStopTank(t, d))

---------------------------------------------------------------------------
(* Inputs *)

ServicePressures == {0, 200, 300}
\* <<capacity_cuft, gauge_pressure>>
CylinderFills == {<<F(80, 1), F(750, 1)>>, <<F(100, 1), Zero>>}
OxygenFractions == {F(21, 100), F(1, 2), F(1, 1)}

Tanks ==
    {[service_pressure |-> sp, capacity_cuft |-> cf[1], gauge_pressure |-> cf[2],
      f_o2 |-> o, f_n2 |-> FSub(F(1, 1), o)] :
        sp \in ServicePressures, cf \in CylinderFills, o \in OxygenFractions}

Kits == UNION {[1..n -> Tanks] : n \in 0..MaxTanks}

Depths == {F(3, 1), F(18, 1), F(19, 1), F(30, 1)}
Rmvs == {F(7, 10)}
Volumes == {F(-5, 1), Zero, F(609, 100), F(120, 1)}

\* What the numeric conversions do.  f64::try_from(u16) has no failing input
\* and f64::value_from(usize) fails only above 2^53, beyond any kit: NoFailure.
NoFailure == [bad_sp |-> {}, max_len |-> MaxTanks]

\* The Err branches of the two conversions taken: f64::try_from fails on one
\* service pressure, or f64::value_from fails above a length.
ConvOutcomes ==
    {NoFailure,
     [bad_sp |-> {300}, max_len |-> MaxTanks],
     [bad_sp |-> {}, max_len |-> 0],
     [bad_sp |-> {}, max_len |-> 1]}

NoTank == [service_pressure |-> 0, capacity_cuft |-> Zero, gauge_pressure |-> Zero,
           f_o2 |-> Zero, f_n2 |-> Zero]

---------------------------------------------------------------------------
(* Diver::rock_bottom_pressure_rec, one action per statement *)

\* A call of rock_bottom_pressure_rec on a diver
DiverCall ==
    /\ kit \in Kits
    /\ depth_m \in Depths
    /\ rmv \in Rmvs
    /\ pc = "start"
    /\ bottom_tanks = None
    /\ stop_tanks = <<>>
    /\ all_tanks = <<>>
    /\ status = "running"
    /\ result = <<>>
    /\ u_op = "none"
    /\ u_self = NoTank
    /\ u_arg = Zero
    /\ u_ret = None
    /\ u_bool = FALSE
    /\ u_n = 0

\* Calls of the Tank methods on one tank
TankCalls ==
    /\ kit = <<>>
    /\ depth_m = Zero
    /\ rmv = Zero
    /\ pc = "tank"
    /\ bottom_tanks = None
    /\ stop_tanks = <<>>
    /\ all_tanks = <<>>
    /\ status = "running"
    /\ result = <<>>
    /\ u_op = "none"
    /\ u_self \in Tanks
    /\ u_arg = Zero
    /\ u_ret = None
    /\ u_bool = FALSE
    /\ u_n = 0

Init == conv = NoFailure /\ (DiverCall \/ TankCalls)

\* The same calls with the conversions' Err branches reachable
InitConv == conv \in ConvOutcomes /\ (DiverCall \/ TankCalls)

\* lines 81-91: the two filters over clones of the kit
Partition ==
    /\ pc = "start"
    /\ bottom_tanks' = Some(bottom_filter(kit, depth_m))
    /\ stop_tanks' = stop_filter(kit, depth_m)
    /\ pc' = "alloc_bottom"
    /\ UNCHANGED <<kit, depth_m, rmv, conv, all_tanks, status, result>>
    /\ UNCHANGED unitVars

\* lines 92-93: divide_gas_among(...).expect("Failed to allocate gas to tanks.")
AllocBottom ==
    /\ pc = "alloc_bottom"
    /\ LET r == divide_gas_among(Unwrap(bottom_tanks),
                    FAdd(problem_gas(rmv, depth_m), ascent_gas(rmv, depth_m)),
                    "with_volume")
       IN  IF r.ok
           THEN /\ bottom_tanks' = r.opt
                /\ pc' = "combine"
                /\ status' = status
           ELSE /\ bottom_tanks' = bottom_tanks
                /\ pc' = "done"
                /\ status' = "panic: Failed to allocate gas to tanks."
    /\ UNCHANGED <<kit, depth_m, rmv, conv, stop_tanks, all_tanks, result>>
    /\ UNCHANGED unitVars

\* lines 94-100: append the stop tanks, or return Err
Combine ==
    /\ pc = "combine"
    /\ IF IsSome(bottom_tanks)
       THEN /\ all_tanks' = Unwrap(bottom_tanks) \o stop_tanks
            /\ stop_tanks' = <<>>
            /\ pc' = "alloc_stop"
            /\ status' = status
       ELSE /\ all_tanks' = all_tanks
            /\ stop_tanks' = stop_tanks
            /\ pc' = "done"
            /\ status' = "Err: No valid bottom tanks"
    /\ UNCHANGED <<kit, depth_m, rmv, conv, bottom_tanks, result>>
    /\ UNCHANGED unitVars

\* lines 101-104: divide_gas_among(...).expect("OOF"), then Ok or Err
AllocStop ==
    /\ pc = "alloc_stop"
    /\ LET r == divide_gas_among(all_tanks, stop_gas(rmv), "add_volume")
       IN  /\ pc' = "done"
           /\ IF ~r.ok
              THEN /\ status' = "panic: OOF"
                   /\ result' = result
              ELSE IF IsSome(r.opt)
              THEN /\ status' = "Ok"
                   /\ result' = Unwrap(r.opt)
              ELSE /\ status' = "Err: BIG OOF."
                   /\ result' = result
    /\ UNCHANGED <<kit, depth_m, rmv, conv, bottom_tanks, stop_tanks, all_tanks>>
    /\ UNCHANGED unitVars

---------------------------------------------------------------------------
(* Calls of the Tank methods.  A call is made on the tank the previous     *)
(* call returned, or on the first tank when there is none.                 *)

Receiver == IF IsSome(u_ret) THEN Unwrap(u_ret) ELSE u_self

\* lines 51-61
CallWithVolume ==
    /\ pc = "tank"
    /\ u_n < MaxCalls
    /\ \E v \in Volumes :
        /\ u_op' = "with_volume"
        /\ u_self' = Receiver
        /\ u_arg' = v
        /\ u_ret' = with_volume(Receiver, v)
    /\ u_n' = u_n + 1
    /\ UNCHANGED <<u_bool, conv>>
    /\ UNCHANGED rbVars

\* lines 63-67
CallAddVolume ==
    /\ pc = "tank"
    /\ u_n < MaxCalls
    /\ \E v \in Volumes :
        /\ u_op' = "add_volume"
        /\ u_self' = Receiver
        /\ u_arg' = v
        /\ u_ret' = add_volume(Receiver, v)
    /\ u_n' = u_n + 1
    /\ UNCHANGED <<u_bool, conv>>
    /\ UNCHANGED rbVars

\* lines 47-49
CallBreathableAt ==
    /\ pc = "tank"
    /\ u_n < MaxCalls
    /\ \E d \in Depths \cup {SAFETY_STOP_DEPTH} :
        /\ u_op' = "breathable_at"
        /\ u_self' = Receiver
        /\ u_arg' = d
        /\ u_bool' = breathable_at(Receiver, d)
    /\ u_ret' = None
    /\ u_n' = u_n + 1
    /\ UNCHANGED conv
    /\ UNCHANGED rbVars

Next ==
    \/ Partition \/ AllocBottom \/ Combine \/ AllocStop
    \/ CallWithVolume \/ CallAddVolume \/ CallBreathableAt

Spec == Init /\ [][Next]_vars

SpecConv == InitConv /\ [][Next]_vars

---------------------------------------------------------------------------
(* Vocabulary of the properties *)

\* gas_volume_cuft of a tank whose service pressure converts
Vol(t) == Unwrap(gas_volume_cuft(t))

\* a tank without its gauge_pressure
Strip(t) == [service_pressure |-> t.service_pressure,
             capacity_cuft |-> t.capacity_cuft,
             f_o2 |-> t.f_o2,
             f_n2 |-> t.f_n2]

StripAll(ts) == [i \in 1..Len(ts) |-> Strip(ts[i])]

\* the tank factor is a finite, non-zero number
UsableFactor(t) ==
    /\ IsSome(tank_factor(t))
    /\ IsFinite(Unwrap(tank_factor(t)))
    /\ Unwrap(tank_factor(t)) # Zero

AllPositivePressure(ts) == \A i \in 1..Len(ts) : ts[i].service_pressure > 0

AllUsable(ts) ==
    \A i \in 1..Len(ts) : UsableFactor(ts[i]) /\ IsFinite(ts[i].gauge_pressure)

\* the kit tanks breathable at depth_m, then those breathable only at the stop
ExpectedBottom == SelectSeq(kit, LAMBDA t : breathable_at(t, depth_m))
ExpectedStop ==
    SelectSeq(kit, LAMBDA t : ~breathable_at(t, depth_m)
                              /\ breathable_at(t, SAFETY_STOP_DEPTH))

BottomNeed == FAdd(problem_gas(rmv, depth_m), ascent_gas(rmv, depth_m))

Returned == pc = "done"
ReturnedOk == pc = "done" /\ status = "Ok"
FeasibilityErrors == {"Err: No valid bottom tanks", "Err: BIG OOF."}
Panics == {"panic: Failed to allocate gas to tanks.", "panic: OOF"}

\* a numeric conversion made by the call returns Err
ConversionFailsInCall ==
    LET bt == ExpectedBottom
        st == ExpectedStop
    IN  \/ Len(bt) > conv.max_len
        \/ \E i \in 1..Len(bt) : bt[i].service_pressure \in conv.bad_sp
        \/ Len(bt) + Len(st) > conv.max_len
        \/ \E i \in 1..Len(st) : st[i].service_pressure \in conv.bad_sp

---------------------------------------------------------------------------
(* C1: a call on a diver without tanks ends in a feasibility error; it     *)
(* neither panics nor returns Ok with an empty tank sequence, and          *)
(* divide_gas_among on an empty vector does not return Some(empty).        *)
C1_EmptyKitIsInfeasible ==
    /\ (Returned /\ kit = <<>>) => status \in FeasibilityErrors
    /\ (pc = "combine" /\ ExpectedBottom = <<>>) => bottom_tanks # Some(<<>>)

(* C2: when no kit tank is breathable at depth_m the call ends with        *)
(* "No valid bottom tanks"; stated for the kits that hold stop tanks, so   *)
(* that a result made only of stop tanks is excluded (the kit without any  *)
(* tank is C1's case).                                                     *)
C2_NoBottomTankIsInfeasible ==
    (Returned /\ ExpectedBottom = <<>> /\ ExpectedStop # <<>>) =>
        status = "Err: No valid bottom tanks"

(* C3: a failing numeric conversion is returned as an error of its own:    *)
(* the call does not panic and does not report a feasibility error.        *)
C3_ConversionFailureIsDistinct ==
    (Returned /\ ConversionFailsInCall) =>
        /\ status \notin Panics
        /\ status \notin FeasibilityErrors
        /\ status # "Ok"

---------------------------------------------------------------------------
(* C4: divide_gas_among on a non-empty vector of tanks with positive       *)
(* service pressure gives each tank needed_gas / count whatever its        *)
(* capacity: with with_volume the volumes sum to needed_gas, with          *)
(* add_volume the increases sum to needed_gas.                             *)
C4_EvenShareConserves ==
    /\ (pc = "combine" /\ ExpectedBottom # <<>> /\ AllPositivePressure(ExpectedBottom)) =>
          /\ IsSome(bottom_tanks)
          /\ LET inp == ExpectedBottom
                    out == Unwrap(bottom_tanks)
                    vols == [i \in 1..Len(out) |-> Vol(out[i])]
                IN  /\ Len(out) = Len(inp)
                    /\ \A i \in 1..Len(out) :
                          FEq(vols[i], FDiv(BottomNeed, F(Len(inp), 1)))
                    /\ FEq(FSum(vols), BottomNeed)
    /\ (ReturnedOk /\ all_tanks # <<>> /\ AllPositivePressure(all_tanks)) =>
          LET grown == [i \in 1..Len(result) |->
                           FSub(Vol(result[i]), Vol(all_tanks[i]))]
          IN  /\ Len(result) = Len(all_tanks)
              /\ \A i \in 1..Len(result) :
                    FEq(grown[i], FDiv(stop_gas(rmv), F(Len(all_tanks), 1)))
              /\ FEq(FSum(grown), stop_gas(rmv))

C4_Witness ==
    /\ ReturnedOk
    /\ Len(Unwrap(bottom_tanks)) = 2
    /\ AllPositivePressure(all_tanks)
    /\ all_tanks[1].capacity_cuft # all_tanks[2].capacity_cuft

---------------------------------------------------------------------------
(* C5: an Ok result holds, in this order, the kit tanks breathable at      *)
(* depth_m (kit order) and then those breathable only at the safety stop   *)
(* (kit order), each once; tanks breathable at neither are absent.         *)
C5_ResultIsPartition ==
    ReturnedOk =>
        LET idx == 1..Len(kit)
            atDepth == {i \in idx : breathable_at(kit[i], depth_m)}
            atStop == {i \in idx : breathable_at(kit[i], SAFETY_STOP_DEPTH)}
        IN  /\ StripAll(result) = StripAll(ExpectedBottom \o ExpectedStop)
            /\ Len(result) = Cardinality(atDepth \cup atStop)
            /\ Len(result) = Len(ExpectedBottom) + Len(ExpectedStop)
            /\ Len(result) <= Len(kit)
            /\ \A i \in idx : ~(IsBottomTank(kit[i], depth_m) /\ IsStopTank(kit[i], depth_m))
            /\ atDepth = idx => Len(result) = Len(kit)

C5_Witness ==
    /\ ReturnedOk
    /\ Len(kit) = 2
    /\ IsStopTank(kit[1], depth_m)
    /\ IsBottomTank(kit[2], depth_m)
    /\ Len(result) = 2

---------------------------------------------------------------------------
(* C6 as stated: on every tank whose tank_factor is Some, with_volume(v)   *)
(* is Some and its gas volume equals v.                                    *)
C6_RoundTripAnyTank ==
    (u_op = "with_volume" /\ IsSome(tank_factor(u_self))) =>
        /\ IsSome(u_ret)
        /\ FEq(Vol(Unwrap(u_ret)), u_arg)

(* C6 amended: on every tank whose tank factor is finite and non-zero,     *)
(* with_volume(v) is Some and its gas volume equals v, whatever the gauge  *)
(* pressure was and without clamping at the service pressure.              *)
C6_RoundTrip ==
    (u_op = "with_volume" /\ UsableFactor(u_self)) =>
        /\ IsSome(u_ret)
        /\ FEq(Vol(Unwrap(u_ret)), u_arg)

C6_Witness ==
    /\ u_op = "with_volume"
    /\ UsableFactor(u_self)
    /\ u_self.gauge_pressure # Zero
    /\ IsSome(u_ret)
    /\ ~FLe(Unwrap(u_ret).gauge_pressure, F(u_self.service_pressure, 1))

---------------------------------------------------------------------------
(* C7 as stated: on every tank whose tank_factor is Some, add_volume(d)    *)
(* is Some and its gas volume is the old volume plus d.                    *)
C7_AdditiveAnyTank ==
    (u_op = "add_volume" /\ IsSome(tank_factor(u_self))) =>
        /\ IsSome(u_ret)
        /\ FEq(Vol(Unwrap(u_ret)), FAdd(Vol(u_self), u_arg))

(* C7 amended: on every tank with a finite gauge pressure and a finite,    *)
(* non-zero tank factor, add_volume(d) is Some and its gas volume is the   *)
(* old volume plus d; add_volume(0) keeps the volume, and add_volume(d)    *)
(* followed by add_volume(e) gives the volume of add_volume(d + e).        *)
C7_Additive ==
    (u_op = "add_volume" /\ UsableFactor(u_self) /\ IsFinite(u_self.gauge_pressure)) =>
        /\ IsSome(u_ret)
        /\ FEq(Vol(Unwrap(u_ret)), FAdd(Vol(u_self), u_arg))
        /\ u_arg = Zero => FEq(Vol(Unwrap(u_ret)), Vol(u_self))
        /\ \A e \in Volumes :
              LET two == add_volume(Unwrap(u_ret), e)
                  one == add_volume(u_self, FAdd(u_arg, e))
              IN  IsSome(two) /\ IsSome(one) /\ FEq(Vol(Unwrap(two)), Vol(Unwrap(one)))

C7_Witness ==
    /\ u_op = "add_volume"
    /\ UsableFactor(u_self)
    /\ u_self.gauge_pressure # Zero
    /\ u_arg # Zero
    /\ IsSome(u_ret)

---------------------------------------------------------------------------
(* C8: for f_o2 > 0 breathable_at(d) is true exactly when                  *)
(* (1 + d/10) * f_o2 <= 1.4, bound included; a tank breathable at d is     *)
(* breathable at every shallower depth, one not breathable at d is not     *)
(* breathable at any deeper depth; f_o2 = 0.5 is breathable at 18 m and    *)
(* not at 19 m.                                                            *)
C8_BreathableDownwardClosed ==
    (u_op = "breathable_at" /\ u_self.f_o2.n > 0) =>
        LET f == u_self.f_o2
            d == u_arg
            others == Depths \cup {SAFETY_STOP_DEPTH}
        IN  /\ u_bool <=> (10 * d.d + d.n) * f.n * 5 <= 7 * 10 * d.d * f.d
            /\ u_bool => \A e \in others : FLe(e, d) => breathable_at(u_self, e)
            /\ ~u_bool => \A e \in others : FLe(d, e) => ~breathable_at(u_self, e)
            /\ (f = F(1, 2) /\ d = F(18, 1)) => u_bool
            /\ (f = F(1, 2) /\ d = F(19, 1)) => ~u_bool

C8_Witness ==
    /\ u_op = "breathable_at"
    /\ u_self.f_o2 = F(1, 2)
    /\ u_arg = F(18, 1)
    /\ u_bool

---------------------------------------------------------------------------
(* C9 as stated: on every Ok return with at least one bottom tank, each    *)
(* bottom tank of the result holds (problem_gas + ascent_gas)/nb +         *)
(* stop_gas/(nb + ns), each stop tank its original volume +                *)
(* stop_gas/(nb + ns).                                                     *)
C9_AbsoluteThenAdditiveAnyTank ==
    (ReturnedOk /\ ExpectedBottom # <<>>) =>
        LET nb == Len(ExpectedBottom)
            ns == Len(ExpectedStop)
            share == FDiv(stop_gas(rmv), F(nb + ns, 1))
        IN  /\ \A i \in 1..nb :
                  FEq(Vol(result[i]), FAdd(FDiv(BottomNeed, F(nb, 1)), share))
            /\ \A j \in 1..ns :
                  FEq(Vol(result[nb + j]), FAdd(Vol(ExpectedStop[j]), share))

(* C9 amended: the same, for kits whose bottom and stop tanks have a       *)
(* finite gauge pressure and a finite, non-zero tank factor; the volumes   *)
(* of the result then sum to problem_gas + ascent_gas + stop_gas plus the  *)
(* original contents of the stop tanks.                                    *)
C9_AbsoluteThenAdditive ==
    (ReturnedOk /\ ExpectedBottom # <<>>
       /\ AllUsable(ExpectedBottom) /\ AllUsable(ExpectedStop)) =>
        LET nb == Len(ExpectedBottom)
            ns == Len(ExpectedStop)
            share == FDiv(stop_gas(rmv), F(nb + ns, 1))
        IN  /\ Len(result) = nb + ns
            /\ \A i \in 1..nb :
                  FEq(Vol(result[i]), FAdd(FDiv(BottomNeed, F(nb, 1)), share))
            /\ \A j \in 1..ns :
                  FEq(Vol(result[nb + j]), FAdd(Vol(ExpectedStop[j]), share))
            /\ FEq(FSum([i \in 1..Len(result) |-> Vol(result[i])]),
                   FAdd(FAdd(BottomNeed, stop_gas(rmv)),
                        FSum([j \in 1..ns |-> Vol(ExpectedStop[j])])))

C9_Witness ==
    /\ ReturnedOk
    /\ Len(ExpectedBottom) = 1
    /\ Len(ExpectedStop) = 1
    /\ AllUsable(kit)
    /\ ExpectedBottom[1].gauge_pressure # Zero
    /\ ExpectedStop[1].gauge_pressure # Zero

---------------------------------------------------------------------------
(* C10: with_volume and add_volume return a tank that differs from the     *)
(* receiver in gauge_pressure only; every tank of an Ok result differs     *)
(* from its kit original in gauge_pressure only; and no step of the call,  *)
(* whether it ends Ok, Err or in a panic, changes the kit.                 *)
C10_FrameState ==
    /\ (u_op \in {"with_volume", "add_volume"} /\ IsSome(u_ret)) =>
          Strip(Unwrap(u_ret)) = Strip(u_self)
    /\ ReturnedOk => StripAll(result) = StripAll(ExpectedBottom \o ExpectedStop)

C10_Frame == [](C10_FrameState) /\ [][kit' = kit]_vars

C10_Witness ==
    /\ ReturnedOk
    /\ Len(result) = 2
    /\ kit # result
    /\ Len(kit) = 2

===========================================================================
